---------------------------- MODULE Spec2Model ----------------------------
(***************************************************************************)
(* Hydration-and-metrics pipeline of scripts/getRepo.py.                   *)
(*                                                                         *)
(* main() reads the frozen corpus, and for each row runs clone_or_checkout *)
(* (git clone / fetch / checkout in projects/<name>), then the three       *)
(* analyzers (count_loc_by_language, get_tsconfig_strictness,              *)
(* get_dependency_graph_depth), stores one record per repository in the    *)
(* in-memory mapping and finally writes logs/metadata.json.                *)
(*                                                                         *)
(* Spec      : the pipeline, run up to MaxRuns times, with interruption.   *)
(* SpecLoc   : count_loc_by_language applied to bounded working trees.     *)
(* SpecTs    : get_tsconfig_strictness applied to bounded tsconfig states. *)
(* SpecGraph : get_dependency_graph_depth applied to bounded tool runs.    *)
(***************************************************************************)
EXTENDS Integers, Sequences, FiniteSets, TLC

VARIABLES
    corpus,        \* logs/corpus.jsonl: the rows, in file order
    remote,        \* per repository: is the host reachable, which commits it serves
    trees,         \* projects/<name>: one working tree per short name
    metadata,      \* main's local mapping `metadata`
    metadataFile,  \* logs/metadata.json on disk
    skipLog,       \* skipped_projects.log on disk (lines)
    pc,            \* where main is
    i,             \* index of the corpus row being processed
    locals,        \* main's per-row locals loc, tsconfig_data, graph_data
    run,           \* number of runs of the script started so far
    log,           \* history of the current run: the operations performed, in order
    fs,            \* input of the analyzer under test (SpecLoc, SpecTs, SpecGraph)
    ret,           \* last result of the analyzer under test, with its argument
    prev,          \* the result before that
    calls          \* number of calls of the analyzer under test

vars == <<corpus, remote, trees, metadata, metadataFile, skipLog, pc, i, locals,
          run, log, fs, ret, prev, calls>>

mainVars == <<corpus, remote, trees, metadata, metadataFile, skipLog, pc, i,
              locals, run, log>>

fnVars == <<fs, ret, prev, calls>>

-----------------------------------------------------------------------------
(* Bounds *)

MaxRuns == 2

MaxCorpus == 3

MaxFiles == 3

MaxCalls == 2

MaxStderr == 2

-----------------------------------------------------------------------------
(* Configuration constants of getRepo.py *)

EXCLUDE_DIRS ==
    {".git", "node_modules", "dist", "build", ".next", "out", "coverage", ".venv", "venv"}

EXCLUDE_FILE_EXTS ==
    {".png", ".jpg", ".jpeg", ".gif", ".bmp", ".pdf", ".svg", ".ico", ".zip", ".gz",
     ".rar", ".7z"}

TS_EXTS == {".ts", ".tsx"}

JS_EXTS == {".js", ".jsx"}

OTHER_CODE_EXTS ==
    {".py", ".java", ".go", ".rs", ".c", ".cc", ".cpp", ".h", ".hh", ".hpp",
     ".cs", ".kt", ".swift", ".rb", ".php", ".m", ".mm", ".scala", ".lua",
     ".dart", ".sh", ".bash", ".zsh", ".ps1", ".r", ".pl", ".sql", ".vue"}

MAX_FILE_BYTES == 10 * 1024 * 1024

Buckets == {"typescript", "javascript", "other"}

-----------------------------------------------------------------------------
(* Files of a working tree.  A file is                                     *)
(*   dir    : the directory names from the tree root down to the file,     *)
(*   name   : the file name split at its dots (<<"a","d","ts">> is a.d.ts, *)
(*            <<"","ts">> is .ts, <<"Makefile">> has no dot),              *)
(*   size   : st_size in bytes,                                            *)
(*   statOk : whether p.stat() succeeds,                                   *)
(*   openOk : whether open()/reading succeeds,                             *)
(*   lines  : the text lines, each a sequence of characters.               *)

Whitespace == {" ", "\t"}

\* str.lower() on the name segments used here.
Lower(s) ==
    CASE s = "TS"  -> "ts"
      [] s = "TSX" -> "tsx"
      [] s = "JSX" -> "jsx"
      [] s = "JS"  -> "js"
      [] s = "PNG" -> "png"
      [] s = "D"   -> "d"
      [] OTHER     -> s

\* Path.suffix: the text from the last dot on, unless that dot is the first
\* character of the name or the last one; "" when there is no such dot.
Suffix(name) ==
    LET n == Len(name)
    IN  IF n < 2 THEN ""
        ELSE IF n = 2 /\ name[1] = "" THEN ""
        ELSE IF name[n] = "" THEN ""
        ELSE "." \o name[n]

\* p.suffix.lower()
SuffixLower(name) ==
    LET n == Len(name)
    IN  IF Suffix(name) = "" THEN "" ELSE "." \o Lower(name[n])

\* filename.lower().endswith(".d.ts")
EndsWithDTs(name) ==
    LET n == Len(name)
    IN  n >= 3 /\ Lower(name[n]) = "ts" /\ Lower(name[n-1]) = "d"

RECURSIVE LStrip(_)
LStrip(line) ==
    IF line = <<>> THEN <<>>
    ELSE IF Head(line) \in Whitespace THEN LStrip(Tail(line))
    ELSE line

RECURSIVE RStrip(_)
RStrip(line) ==
    IF line = <<>> THEN <<>>
    ELSE IF line[Len(line)] \in Whitespace THEN RStrip(SubSeq(line, 1, Len(line) - 1))
    ELSE line

\* line.strip()
Strip(line) == RStrip(LStrip(line))

\* sum(1 for line in fh if line.strip())
RECURSIVE CountNonBlank(_)
CountNonBlank(lines) ==
    IF lines = <<>> THEN 0
    ELSE (IF Strip(Head(lines)) # <<>> THEN 1 ELSE 0) + CountNonBlank(Tail(lines))

IsProperPrefix(p, q) ==
    /\ Len(p) < Len(q)
    /\ \A k \in 1..Len(p) : p[k] = q[k]

\* os.walk(repo_dir) with dirs[:] pruned at each directory before descending:
\* the files of `path`, then of each sub-directory whose name is not excluded.
RECURSIVE WalkDir(_, _)
WalkDir(files, path) ==
    LET here == {f \in files : f.dir = path}
        dirs == {f.dir[Len(path) + 1] : f \in {g \in files : IsProperPrefix(path, g.dir)}}
        kept == {d \in dirs : d \notin EXCLUDE_DIRS}
    IN  here \cup UNION {WalkDir(files, Append(path, d)) : d \in kept}

\* The bucket the if/elif chain picks, "" for the final else (continue).
CodeType(f) ==
    LET type == SuffixLower(f.name)
    IN  IF type \in TS_EXTS \/ EndsWithDTs(f.name) THEN "typescript"
        ELSE IF type \in JS_EXTS THEN "javascript"
        ELSE IF type \in OTHER_CODE_EXTS THEN "other"
        ELSE ""

\* One iteration of `for filename in files`: the totals after file f.
FileStep(totals, f) ==
    LET type == SuffixLower(f.name)
    IN  IF type \in EXCLUDE_FILE_EXTS THEN totals
        ELSE IF ~f.statOk THEN totals
        ELSE IF f.size > MAX_FILE_BYTES THEN totals
        ELSE IF CodeType(f) = "" THEN totals
        ELSE IF ~f.openOk THEN totals
        ELSE [totals EXCEPT ![CodeType(f)] = @ + CountNonBlank(f.lines)]

RECURSIVE LoopFiles(_, _)
LoopFiles(todo, totals) ==
    IF todo = {} THEN totals
    ELSE LET f == CHOOSE x \in todo : TRUE
         IN  LoopFiles(todo \ {f}, FileStep(totals, f))

\* A mutant of InitTotals: the counts of the previous call are kept.
InitTotalsCarried ==
    IF ret.kind = "return" /\ "typescript" \in DOMAIN ret.value
    THEN [b \in Buckets |-> ret.value[b]]
    ELSE [b \in Buckets |-> 0]

\* totals = {"typescript": 0, "javascript": 0, "other": 0}
InitTotals == [b \in Buckets |-> 0]

\* A mutant of count_loc_by_language: the size ceiling is not applied.
count_loc_no_ceiling(files) ==
    LET noCeil(f) == [f EXCEPT !.size = 0]
        totals == LoopFiles({noCeil(f) : f \in WalkDir(files, <<>>)}, InitTotals)
    IN  [typescript |-> totals["typescript"],
         javascript |-> totals["javascript"],
         other      |-> totals["other"],
         total      |-> totals["typescript"] + totals["javascript"] + totals["other"]]

count_loc_by_language(files) ==
    LET totals == LoopFiles(WalkDir(files, <<>>), InitTotals)
    IN  [typescript |-> totals["typescript"],
         javascript |-> totals["javascript"],
         other      |-> totals["other"],
         total      |-> totals["typescript"] + totals["javascript"] + totals["other"]]

-----------------------------------------------------------------------------
(* Results of a call: a value returned, or an exception that leaves it.    *)

Return(v) == [kind |-> "return", value |-> v]

Raise(exc) == [kind |-> "raise", value |-> exc]

\* {} : the empty dict (a function with empty domain).
EmptyDict == <<>>

\* d.get(k, default)
DictGet(d, k, default) == IF k \in DOMAIN d THEN d[k] ELSE default

-----------------------------------------------------------------------------
(* tsconfig.json at the tree root.  A state of the file is                 *)
(*   exists : tsconfig_path.exists(),                                      *)
(*   parsed : what JsoncParser.parse_file gives:                           *)
(*            [kind |-> "error"]   it raises (malformed, unreadable),      *)
(*            [kind |-> "array"]   valid JSON that is no object,           *)
(*            [kind |-> "object", co |-> c] with c the "compilerOptions"   *)
(*            member: [kind |-> "missing"], [kind |-> "null"] or           *)
(*            [kind |-> "object", opts |-> the options set in the file].   *)
(* JSON booleans are "true" / "false", JSON null is "null".                *)

StrictnessOptions == {"strict", "strictNullChecks", "noImplicitAny", "skipLibCheck"}

\* A mutant of get_tsconfig_strictness: the parse is not guarded by try/except.
get_tsconfig_strictness_unguarded(ts) ==
    IF ~ts.exists THEN Return(EmptyDict)
    ELSE IF ts.parsed.kind = "error" THEN Raise("ParserError")
    ELSE IF ts.parsed.kind # "object" THEN Raise("AttributeError")
    ELSE IF ts.parsed.co.kind = "null" THEN Raise("AttributeError")
    ELSE LET compilerOptions ==
                 IF ts.parsed.co.kind = "missing" THEN EmptyDict ELSE ts.parsed.co.opts
         IN  Return([o \in StrictnessOptions |-> DictGet(compilerOptions, o, "false")])

get_tsconfig_strictness(ts) ==
    IF ~ts.exists THEN Return(EmptyDict)
    ELSE IF ts.parsed.kind = "error" THEN Return(EmptyDict)
    ELSE IF ts.parsed.kind # "object" THEN Return(EmptyDict)
    ELSE IF ts.parsed.co.kind = "null" THEN Return(EmptyDict)
    ELSE LET compilerOptions ==
                 IF ts.parsed.co.kind = "missing" THEN EmptyDict ELSE ts.parsed.co.opts
         IN  Return([o \in StrictnessOptions |-> DictGet(compilerOptions, o, "false")])

-----------------------------------------------------------------------------
(* One run of `npx madge --json ...` as subprocess.run(check=True) sees it *)
(*   start  : "ok", or "missing" when the executable cannot be started,    *)
(*   exit   : the exit status,                                             *)
(*   cause  : why the tool exited non-zero ("circular": it found a         *)
(*            circular dependency, "crash": it failed), "none" otherwise;  *)
(*            the adapter is never given this field,                       *)
(*   stderr : the lines of standard error,                                 *)
(*   stdout : [kind |-> "invalid"] no JSON, [kind |-> "array"] JSON that   *)
(*            is no object, [kind |-> "graph", g |-> module -> deps].      *)

RECURSIVE DropBlankHead(_)
DropBlankHead(ls) ==
    IF ls = <<>> THEN <<>>
    ELSE IF Strip(Head(ls)) = <<>> THEN DropBlankHead(Tail(ls))
    ELSE ls

RECURSIVE DropBlankTail(_)
DropBlankTail(ls) ==
    IF ls = <<>> THEN <<>>
    ELSE IF Strip(ls[Len(ls)]) = <<>> THEN DropBlankTail(SubSeq(ls, 1, Len(ls) - 1))
    ELSE ls

\* e.stderr.strip().splitlines()
StripSplitLines(stderr) == DropBlankTail(DropBlankHead(stderr))

\* The except CalledProcessError clause: it indexes [-1] into the stripped
\* lines of stderr before it returns.
OnCalledProcessError(toolRun) ==
    IF StripSplitLines(toolRun.stderr) = <<>> THEN Raise("IndexError")
    ELSE Return([error |-> "Madge execution failed"])

\* len(all_nodes): the keys of the graph and every dependency listed.
ModuleCount(g) == Cardinality(DOMAIN g \cup UNION {g[m] : m \in DOMAIN g})

\* A mutant of get_dependency_graph_depth: the generic except clause comes
\* first and takes the CalledProcessError too.
get_dependency_graph_depth_generic(toolRun) ==
    IF toolRun.start = "missing" THEN Return([error |-> "General Madge error"])
    ELSE IF toolRun.exit # 0 THEN Return([error |-> "General Madge error"])
    ELSE IF toolRun.stdout.kind = "invalid" THEN Return([error |-> "Madge output invalid"])
    ELSE IF toolRun.stdout.kind # "graph" THEN Return([error |-> "General Madge error"])
    ELSE Return([module_count |-> ModuleCount(toolRun.stdout.g)])

get_dependency_graph_depth(toolRun) ==
    IF toolRun.start = "missing" THEN Return([error |-> "General Madge error"])
    ELSE IF toolRun.exit # 0 THEN OnCalledProcessError(toolRun)
    ELSE IF toolRun.stdout.kind = "invalid" THEN Return([error |-> "Madge output invalid"])
    ELSE IF toolRun.stdout.kind # "graph" THEN Return([error |-> "General Madge error"])
    ELSE Return([module_count |-> ModuleCount(toolRun.stdout.g)])

-----------------------------------------------------------------------------
(* The corpus and the remote host.                                         *)

AX == [owner |-> "a", name |-> "x"]

BX == [owner |-> "b", name |-> "x"]

CY == [owner |-> "c", name |-> "y"]

DZ == [owner |-> "d", name |-> "z"]

\* owner/name keys; AX and BX have the same short name.
Repos == {AX, BX, CY, DZ}

NoRepo == [owner |-> "", name |-> ""]

\* The commit each repository is pinned to in corpus.jsonl.
PinnedSha(repo) ==
    CASE repo = AX -> "s1"
      [] repo = BX -> "s2"
      [] repo = CY -> "s3"
      [] repo = DZ -> "s4"

\* One line of corpus.jsonl (freeze_corpus.py writes these rows).
Row(repo) ==
    [repo         |-> repo,
     commit_sha   |-> PinnedSha(repo),
     commit_date  |-> "2024-01-01",
     license_spdx |-> "MIT",
     curation     |-> "library"]

Injective(s) == \A j, k \in DOMAIN s : j # k => s[j] # s[k]

\* The corpora: up to MaxCorpus rows, no repository twice.
Corpora ==
    {[k \in DOMAIN s |-> Row(s[k])] :
        s \in {t \in UNION {[1..n -> Repos] : n \in 1..MaxCorpus} : Injective(t)}}

CorpusRepos(c) == {c[k].repo : k \in DOMAIN c}

\* Repositories with the same short name (forks keep the name).
ForksOf(repo) == {q \in Repos : q # repo /\ q.name = repo.name}

\* What the host may serve for a repository: nothing when unreachable;
\* otherwise its commits, with or without the pinned one, and for a fork
\* possibly the pinned commit of the repository it shares history with.
Unreachable == [up |-> FALSE, commits |-> {}]

RemoteStates(repo) ==
    {Unreachable}
    \cup {[up |-> TRUE, commits |-> c] :
            c \in {{}, {PinnedSha(repo)}}
                  \cup {{PinnedSha(repo), PinnedSha(q)} : q \in ForksOf(repo)}}

-----------------------------------------------------------------------------
(* What each commit holds: its files, its tsconfig.json and what madge     *)
(* does on it.  The analyzers read these through the checked-out tree.     *)

File(dir, name, size, lines) ==
    [dir |-> dir, name |-> name, size |-> size, statOk |-> TRUE, openOk |-> TRUE,
     lines |-> lines]

CodeLines == << <<"x", " ", "x">>, <<>>, <<" ", "\t">>, <<" ", "x">> >>

BlankLines == << <<" ">>, <<>>, <<"\t", " ">> >>

WorkFiles(head) ==
    CASE head = "s1" ->
            {File(<<"src">>, <<"index", "ts">>, 120, CodeLines),
             File(<<"src">>, <<"util", "js">>, 80, CodeLines),
             File(<<"node_modules", "dep">>, <<"index", "js">>, 80, CodeLines),
             File(<<>>, <<"logo", "PNG">>, 80, CodeLines),
             File(<<"src">>, <<"blob", "ts">>, MAX_FILE_BYTES + 1, CodeLines)}
      [] head = "s2" ->
            {File(<<>>, <<"main", "py">>, 40, CodeLines),
             File(<<"src">>, <<"blank", "ts">>, 6, BlankLines)}
      [] head = "s4" ->
            {[File(<<>>, <<"app", "tsx">>, 40, CodeLines) EXCEPT !.openOk = FALSE],
             File(<<>>, <<"README", "md">>, 40, CodeLines),
             File(<<"lib">>, <<"types", "d", "ts">>, MAX_FILE_BYTES, CodeLines)}
      [] OTHER -> {}

TsConfig(head) ==
    CASE head = "s1" ->
            [exists |-> TRUE,
             parsed |-> [kind |-> "object",
                         co |-> [kind |-> "object",
                                 opts |-> [o \in {"strict", "skipLibCheck"} |-> "true"]]]]
      [] head = "s2" -> [exists |-> TRUE, parsed |-> [kind |-> "error"]]
      [] head = "s4" ->
            [exists |-> TRUE, parsed |-> [kind |-> "object", co |-> [kind |-> "missing"]]]
      [] OTHER -> [exists |-> FALSE, parsed |-> [kind |-> "error"]]

ToolRun(start, exit, cause, stderr, stdout) ==
    [start |-> start, exit |-> exit, cause |-> cause, stderr |-> stderr, stdout |-> stdout]

NoJson == [kind |-> "invalid"]

Madge(head) ==
    CASE head = "s1" ->
            ToolRun("ok", 0, "none", <<>>,
                    [kind |-> "graph",
                     g |-> [m \in {"a.ts", "b.ts"} |->
                               IF m = "a.ts" THEN {"b.ts", "c.ts"} ELSE {}]])
      [] head = "s2" ->
            ToolRun("ok", 1, "circular", << <<"x">>, <<>> >>, NoJson)
      [] head = "s3" ->
            ToolRun("ok", 1, "circular", <<>>, NoJson)
      [] head = "s4" ->
            ToolRun("ok", 0, "none", <<>>, NoJson)
      [] OTHER -> ToolRun("missing", 0, "none", <<>>, NoJson)

-----------------------------------------------------------------------------
(* Working trees under projects/ and the git commands run on them.         *)

Names == {r.name : r \in Repos}

\* dest does not exist.
Absent == [kind |-> "absent", origin |-> NoRepo, objs |-> {}, head |-> "none"]

\* dest exists but holds no usable repository (a clone that was killed).
Partial == [kind |-> "partial", origin |-> NoRepo, objs |-> {}, head |-> "none"]

\* git clone --filter=blob:none https://github.com/<repo>.git dest
\* The new tree is on the default branch ("branch"); a failed clone leaves
\* no directory.
GitClone(repo) ==
    IF remote[repo].up
    THEN [ok |-> TRUE,
          tree |-> [kind |-> "repo", origin |-> repo, objs |-> remote[repo].commits,
                    head |-> "branch"]]
    ELSE [ok |-> FALSE, tree |-> Absent]

\* git fetch --all --tags --prune, in dest: from the tree's own origin.
GitFetch(t) ==
    IF t.kind = "repo" /\ remote[t.origin].up
    THEN [ok |-> TRUE, tree |-> [t EXCEPT !.objs = @ \cup remote[t.origin].commits]]
    ELSE [ok |-> FALSE, tree |-> t]

\* git checkout -q <sha>, in dest.
GitCheckout(t, sha) ==
    IF t.kind = "repo" /\ sha \in t.objs
    THEN [ok |-> TRUE, tree |-> [t EXCEPT !.head = sha]]
    ELSE [ok |-> FALSE, tree |-> t]

-----------------------------------------------------------------------------
(* main()                                                                  *)

NoLocals == [loc |-> <<>>, tsconfig_data |-> <<>>, graph_data |-> <<>>]

NoFile == [kind |-> "absent", data |-> <<>>]

\* d[k] = v
DictSet(d, k, v) == [x \in DOMAIN d \cup {k} |-> IF x = k THEN v ELSE d[x]]

Op(op, idx, ok) == [op |-> op, idx |-> idx, ok |-> ok]

\* A mutant of AfterExists: an existing tree is checked out without a fetch.
AfterExistsNoFetch(exists) == IF exists THEN "checkout" ELSE "clone"

\* clone_or_checkout: `if not dest.exists()` guards the clone only.
AfterExists(exists) == IF exists THEN "fetch" ELSE "clone"

\* A mutant of ExceptClause: the failure leaves the loop.
ExceptClauseBreak(idx) == [pc |-> "open", i |-> idx]

\* main's except clauses: print a warning, go on with the next line.
ExceptClause(idx) == [pc |-> "row", i |-> idx + 1]

\* The key of metadata[repo]: the owner/name of the row.
RowRecordKey(row) == row.repo

Init ==
    /\ corpus \in Corpora
    /\ remote \in {r \in [Repos -> UNION {RemoteStates(q) : q \in Repos}] :
                     \A q \in Repos :
                        /\ r[q] \in RemoteStates(q)
                        /\ q \notin CorpusRepos(corpus) => r[q] = Unreachable}
    /\ trees = [n \in Names |-> Absent]
    /\ metadata = <<>>
    /\ metadataFile = NoFile
    /\ skipLog = <<>>
    /\ pc = "idle"
    /\ i = 0
    /\ locals = NoLocals
    /\ run = 0
    /\ log = <<>>
    /\ fs = <<>>
    /\ ret = [kind |-> "none"]
    /\ prev = [kind |-> "none"]
    /\ calls = 0

\* The script is started: LOGS_DIR.mkdir, metadata = {}, open(CORPUS).
Start ==
    /\ pc \in {"idle", "done"}
    /\ run < MaxRuns
    /\ run' = run + 1
    /\ metadata' = <<>>
    /\ locals' = NoLocals
    /\ i' = 1
    /\ log' = <<>>
    /\ pc' = "row"
    /\ UNCHANGED <<corpus, remote, trees, metadataFile, skipLog, fnVars>>

\* for line in f: row = json.loads(line) ...; after the last line, leave the loop.
NextRow ==
    /\ pc = "row"
    /\ pc' = IF i <= Len(corpus) THEN "exists" ELSE "open"
    /\ locals' = NoLocals
    /\ UNCHANGED <<corpus, remote, trees, metadata, metadataFile, skipLog, i, run, log,
                   fnVars>>

\* clone_or_checkout: dest = BASE_DIR / name; if not dest.exists()
Exists ==
    /\ pc = "exists"
    /\ LET dest == trees[corpus[i].repo.name]
           exists == dest.kind # "absent"
       IN  /\ log' = Append(log, Op("exists", i, exists))
           /\ pc' = AfterExists(exists)
    /\ UNCHANGED <<corpus, remote, trees, metadata, metadataFile, skipLog, i, locals,
                   run, fnVars>>

\* sh("git", "clone", ...): check_call raises on a non-zero exit.
Clone ==
    /\ pc = "clone"
    /\ LET repo == corpus[i].repo
           r == GitClone(repo)
       IN  /\ trees' = [trees EXCEPT ![repo.name] = r.tree]
           /\ log' = Append(log, Op("clone", i, r.ok))
           /\ pc' = IF r.ok THEN "fetch" ELSE ExceptClause(i).pc
           /\ i' = IF r.ok THEN i ELSE ExceptClause(i).i
    /\ UNCHANGED <<corpus, remote, metadata, metadataFile, skipLog, locals, run, fnVars>>

\* sh("git", "fetch", "--all", "--tags", "--prune", cwd=dest)
Fetch ==
    /\ pc = "fetch"
    /\ LET repo == corpus[i].repo
           r == GitFetch(trees[repo.name])
       IN  /\ trees' = [trees EXCEPT ![repo.name] = r.tree]
           /\ log' = Append(log, Op("fetch", i, r.ok))
           /\ pc' = IF r.ok THEN "checkout" ELSE ExceptClause(i).pc
           /\ i' = IF r.ok THEN i ELSE ExceptClause(i).i
    /\ UNCHANGED <<corpus, remote, metadata, metadataFile, skipLog, locals, run, fnVars>>

\* sh("git", "checkout", "-q", sha, cwd=dest)
Checkout ==
    /\ pc = "checkout"
    /\ LET repo == corpus[i].repo
           r == GitCheckout(trees[repo.name], corpus[i].commit_sha)
       IN  /\ trees' = [trees EXCEPT ![repo.name] = r.tree]
           /\ log' = Append(log, Op("checkout", i, r.ok))
           /\ pc' = IF r.ok THEN "loc" ELSE ExceptClause(i).pc
           /\ i' = IF r.ok THEN i ELSE ExceptClause(i).i
    /\ UNCHANGED <<corpus, remote, metadata, metadataFile, skipLog, locals, run, fnVars>>

\* repo_dir = BASE_DIR / repo.split("/")[1]; loc = count_loc_by_language(repo_dir)
CountLoc ==
    /\ pc = "loc"
    /\ LET repo_dir == trees[corpus[i].repo.name]
       IN  locals' = [locals EXCEPT !.loc = count_loc_by_language(WorkFiles(repo_dir.head))]
    /\ log' = Append(log, Op("loc", i, TRUE))
    /\ pc' = "tsconfig"
    /\ UNCHANGED <<corpus, remote, trees, metadata, metadataFile, skipLog, i, run, fnVars>>

\* tsconfig_data = get_tsconfig_strictness(repo_dir)
Tsconfig ==
    /\ pc = "tsconfig"
    /\ LET repo_dir == trees[corpus[i].repo.name]
           r == get_tsconfig_strictness(TsConfig(repo_dir.head))
       IN  /\ locals' = IF r.kind = "return"
                        THEN [locals EXCEPT !.tsconfig_data = r.value] ELSE locals
           /\ log' = Append(log, Op("tsconfig", i, r.kind = "return"))
           /\ pc' = IF r.kind = "return" THEN "graph" ELSE ExceptClause(i).pc
           /\ i' = IF r.kind = "return" THEN i ELSE ExceptClause(i).i
    /\ UNCHANGED <<corpus, remote, trees, metadata, metadataFile, skipLog, run, fnVars>>

\* graph_data = get_dependency_graph_depth(repo_dir); an exception that leaves
\* the adapter is taken by main's `except Exception`.
Graph ==
    /\ pc = "graph"
    /\ LET repo_dir == trees[corpus[i].repo.name]
           r == get_dependency_graph_depth(Madge(repo_dir.head))
       IN  /\ locals' = IF r.kind = "return"
                        THEN [locals EXCEPT !.graph_data = r.value] ELSE locals
           /\ log' = Append(log, Op("graph", i, r.kind = "return"))
           /\ pc' = IF r.kind = "return" THEN "store" ELSE ExceptClause(i).pc
           /\ i' = IF r.kind = "return" THEN i ELSE ExceptClause(i).i
    /\ UNCHANGED <<corpus, remote, trees, metadata, metadataFile, skipLog, run, fnVars>>

\* The record main stores for a row.
RowRecord(row, loc, tsconfig_data, graph_data) ==
    [commit_sha    |-> row.commit_sha,
     commit_date   |-> row.commit_date,
     license_spdx  |-> row.license_spdx,
     curation      |-> row.curation,
     loc           |-> loc,
     tsconfig_data |-> tsconfig_data,
     graph_data    |-> graph_data]

\* metadata[repo] = {...}
Store ==
    /\ pc = "store"
    /\ metadata' = DictSet(metadata, RowRecordKey(corpus[i]),
                           RowRecord(corpus[i], locals.loc, locals.tsconfig_data,
                                     locals.graph_data))
    /\ log' = Append(log, Op("store", i, TRUE))
    /\ pc' = "row"
    /\ i' = i + 1
    /\ UNCHANGED <<corpus, remote, trees, metadataFile, skipLog, locals, run, fnVars>>

\* open(METADATA_FILE, "w"): the file is created or truncated.
OpenOut ==
    /\ pc = "open"
    /\ metadataFile' = [kind |-> "truncated", data |-> <<>>]
    /\ pc' = "dump"
    /\ UNCHANGED <<corpus, remote, trees, metadata, skipLog, i, locals, run, log, fnVars>>

\* json.dump(metadata, out, indent=2), close.
Dump ==
    /\ pc = "dump"
    /\ metadataFile' = [kind |-> "json", data |-> metadata]
    /\ log' = Append(log, Op("write", i, TRUE))
    /\ pc' = "done"
    /\ UNCHANGED <<corpus, remote, trees, metadata, skipLog, i, locals, run, fnVars>>

\* What a git command killed part-way may leave of the tree it was working on.
KilledTree(at, t, row) ==
    CASE at = "clone"    -> {t, Partial, GitClone(row.repo).tree}
      [] at = "fetch"    -> {t, GitFetch(t).tree}
      [] at = "checkout" -> {t, GitCheckout(t, row.commit_sha).tree}
      [] OTHER           -> {t}

\* The run is interrupted (there is no cancellation handling): the process
\* and its memory are gone, the disk stays as it is.
Interrupt ==
    /\ pc \notin {"idle", "done"}
    /\ IF pc \in {"clone", "fetch", "checkout"}
       THEN \E t \in KilledTree(pc, trees[corpus[i].repo.name], corpus[i]) :
               trees' = [trees EXCEPT ![corpus[i].repo.name] = t]
       ELSE trees' = trees
    /\ pc' = "idle"
    /\ metadata' = <<>>
    /\ locals' = NoLocals
    /\ i' = 0
    /\ log' = <<>>
    /\ UNCHANGED <<corpus, remote, metadataFile, skipLog, run, fnVars>>

Next ==
    \/ Start
    \/ NextRow
    \/ Exists
    \/ Clone
    \/ Fetch
    \/ Checkout
    \/ CountLoc
    \/ Tsconfig
    \/ Graph
    \/ Store
    \/ OpenOut
    \/ Dump
    \/ Interrupt

Spec == Init /\ [][Next]_vars

-----------------------------------------------------------------------------
(* What the history of the current run says about a corpus row.            *)

GitOps == {"clone", "fetch", "checkout"}

Analyzers == {"loc", "tsconfig", "graph"}

Rows == 1..Len(corpus)

\* clone_or_checkout was entered for row idx.
Attempted(idx) == \E k \in DOMAIN log : log[k].op = "exists" /\ log[k].idx = idx

\* clone_or_checkout returned for row idx: its checkout succeeded.
Hydrated(idx) == \E k \in DOMAIN log : log[k] = Op("checkout", idx, TRUE)

\* clone_or_checkout raised for row idx: one of its git commands failed.
HydrationFailed(idx) ==
    \E k \in DOMAIN log : log[k].idx = idx /\ log[k].op \in GitOps /\ ~log[k].ok

\* Every analyzer was called for row idx.
Analyzed(idx) ==
    \A a \in Analyzers : \E k \in DOMAIN log : log[k].op = a /\ log[k].idx = idx

Writes == {k \in DOMAIN log : log[k].op = "write"}

\* An uninterrupted run of main() over the whole corpus, from the trees ts
\* and the mapping md, row k onwards: the trees and the mapping it ends with.
RECURSIVE RunRows(_, _, _)
RunRows(k, ts, md) ==
    IF k > Len(corpus) THEN [trees |-> ts, metadata |-> md]
    ELSE LET row == corpus[k]
             name == row.repo.name
             c == IF ts[name].kind = "absent" THEN GitClone(row.repo)
                  ELSE [ok |-> TRUE, tree |-> ts[name]]
             f == IF c.ok THEN GitFetch(c.tree) ELSE c
             h == IF f.ok THEN GitCheckout(f.tree, row.commit_sha) ELSE f
             loc == count_loc_by_language(WorkFiles(h.tree.head))
             t == get_tsconfig_strictness(TsConfig(h.tree.head))
             g == get_dependency_graph_depth(Madge(h.tree.head))
             stored == h.ok /\ t.kind = "return" /\ g.kind = "return"
         IN  RunRows(k + 1,
                     [ts EXCEPT ![name] = h.tree],
                     IF stored
                     THEN DictSet(md, RowRecordKey(row), RowRecord(row, loc, t.value, g.value))
                     ELSE md)

\* What an uninterrupted run started with no working tree on disk ends with.
CleanRun == RunRows(1, [n \in Names |-> Absent], <<>>)

\* No two rows of the corpus have the same short name.
DistinctShortNames ==
    \A j, k \in Rows : j # k => corpus[j].repo.name # corpus[k].repo.name

-----------------------------------------------------------------------------
(* C1: a failing clone, fetch or checkout is caught at its row: at the end *)
(* of a run every row of the corpus was hydrated (to success or failure),  *)
(* every row whose hydration succeeded was analyzed, the metadata file was *)
(* written exactly once, as the last operation, and no row whose hydration *)
(* failed is a key of the mapping, in memory or in the file written.       *)
C1_FailureCaughtPerRow ==
    /\ \A idx \in Rows : HydrationFailed(idx) => corpus[idx].repo \notin DOMAIN metadata
    /\ pc = "done" =>
          /\ \A idx \in Rows :
                /\ Attempted(idx)
                /\ Hydrated(idx) \/ HydrationFailed(idx)
                /\ Hydrated(idx) => Analyzed(idx)
                /\ HydrationFailed(idx) => corpus[idx].repo \notin DOMAIN metadataFile.data
          /\ Cardinality(Writes) = 1
          /\ log[Len(log)].op = "write"
          /\ metadataFile = [kind |-> "json", data |-> metadata]

\* A finished run in which a row failed to hydrate and a later row was
\* hydrated, analyzed and stored.
C1_Witness ==
    /\ pc = "done"
    /\ \E idx, jdx \in Rows :
          /\ idx < jdx
          /\ HydrationFailed(idx)
          /\ Hydrated(jdx)
          /\ Analyzed(jdx)
          /\ corpus[jdx].repo \in DOMAIN metadataFile.data

(* C2: at the end of a run every row whose hydration succeeded is a key of *)
(* the metadata file with its line counts populated, whatever the          *)
(* dependency-graph tool did.                                              *)
C2_HydratedRowsAreStored ==
    pc = "done" =>
        \A idx \in Rows :
            Hydrated(idx) =>
                /\ corpus[idx].repo \in DOMAIN metadataFile.data
                /\ "total" \in DOMAIN metadataFile.data[corpus[idx].repo].loc

(* C3: at the end of a run the working tree of every row whose hydration   *)
(* succeeded in that run is checked out at the row's commit_sha.           *)
C3_TreeAtPinnedCommit ==
    pc = "done" =>
        \A idx \in Rows :
            Hydrated(idx) =>
                /\ trees[corpus[idx].repo.name].kind = "repo"
                /\ trees[corpus[idx].repo.name].head = corpus[idx].commit_sha

(* C4: at the end of a run the skip log holds exactly one line for each    *)
(* row whose hydration failed and no other line.                           *)
C4_SkipLogNamesFailedRows ==
    pc = "done" =>
        LET failed == {idx \in Rows : HydrationFailed(idx)}
        IN  /\ Len(skipLog) = Cardinality(failed)
            /\ {skipLog[k].repo : k \in DOMAIN skipLog} = {corpus[idx].repo : idx \in failed}

(* C5: whatever earlier runs, finished or interrupted, left on disk, a run *)
(* that finishes ends with the working trees and the metadata file of an   *)
(* uninterrupted run started from a clean state.  Stated for corpora whose *)
(* rows have distinct short names, so that no row shares a tree.           *)
C5_ResumeMatchesCleanRun ==
    (pc = "done" /\ DistinctShortNames) =>
        /\ trees = CleanRun.trees
        /\ metadataFile = [kind |-> "json", data |-> CleanRun.metadata]

(* C10: the operations of a run, in order.  For each row: the existence    *)
(* test, a clone only when the tree does not exist, then a fetch, then the *)
(* checkout, each only after the one before succeeded; the analyzers only  *)
(* after the checkout succeeded; the next row only after this one ended.   *)
C10_HydratorOrder ==
    \A k \in DOMAIN log :
        LET o == log[k]
            before == log[k - 1]
        IN  /\ o.op = "exists" =>
                 k = 1 \/ ( /\ before.idx < o.idx
                            /\ before.op = "store" \/ (before.op # "exists" /\ ~before.ok) )
            /\ o.op = "clone" => k > 1 /\ before = Op("exists", o.idx, FALSE)
            /\ o.op = "fetch" =>
                 k > 1 /\ ( \/ before = Op("exists", o.idx, TRUE)
                            \/ before = Op("clone", o.idx, TRUE) )
            /\ o.op = "checkout" => k > 1 /\ before = Op("fetch", o.idx, TRUE)
            /\ o.op = "loc" => k > 1 /\ before = Op("checkout", o.idx, TRUE)
            /\ o.op = "tsconfig" => k > 1 /\ before = Op("loc", o.idx, TRUE)
            /\ o.op = "graph" => k > 1 /\ before = Op("tsconfig", o.idx, TRUE)
            /\ o.op = "store" => k > 1 /\ before = Op("graph", o.idx, TRUE)
            /\ o.op = "write" => k = Len(log)

\* A run that checked out one row in a tree it had just cloned and another
\* row in a tree that existed already.
C10_Witness ==
    \E j, k \in DOMAIN log :
        /\ log[j] = Op("checkout", log[j].idx, TRUE)
        /\ log[k] = Op("checkout", log[k].idx, TRUE)
        /\ \E m \in DOMAIN log : log[m] = Op("clone", log[j].idx, TRUE)
        /\ \E m \in DOMAIN log : log[m] = Op("exists", log[k].idx, TRUE)

-----------------------------------------------------------------------------
(* The analyzers on their own: each is applied to inputs drawn from a      *)
(* bounded set; the pipeline's variables stay as before the first run.     *)

PipelineNotStarted ==
    /\ corpus = <<>>
    /\ remote = [q \in Repos |-> Unreachable]
    /\ trees = [n \in Names |-> Absent]
    /\ metadata = <<>>
    /\ metadataFile = NoFile
    /\ skipLog = <<>>
    /\ pc = "idle"
    /\ i = 0
    /\ locals = NoLocals
    /\ run = 0
    /\ log = <<>>

NoCall == [kind |-> "none"]

\* The result of a call together with the argument it was given.
Called(arg, r) == [kind |-> r.kind, arg |-> arg, value |-> r.value]

(* count_loc_by_language *)

LocNames ==
    {<<"a", "ts">>, <<"b", "TSX">>, <<"c", "d", "ts">>, <<"e", "js">>, <<"f", "JSX">>,
     <<"g", "py">>, <<"h", "PNG">>, <<"k", "md">>, <<"Makefile">>, <<"", "ts">>}

LocDirs == {<<>>, <<"node_modules">>, <<"src", "build">>, <<"build", "src">>}

LocFiles ==
    {File(<<"src">>, n, 100, CodeLines) : n \in LocNames}
    \cup {File(d, <<"a", "ts">>, 100, CodeLines) : d \in LocDirs}
    \cup {File(<<"lib">>, n, sz, CodeLines) :
            n \in {<<"a", "ts">>, <<"g", "py">>},
            sz \in {MAX_FILE_BYTES, MAX_FILE_BYTES + 1}}
    \cup {File(<<"test">>, <<"e", "js">>, 100, l) : l \in {BlankLines, <<>>}}
    \cup {[File(<<"test">>, <<"e", "js">>, 100, CodeLines) EXCEPT !.statOk = FALSE],
          [File(<<"test">>, <<"a", "ts">>, 100, CodeLines) EXCEPT !.openOk = FALSE]}

\* The sets of at most n of the files.
RECURSIVE FileSetsUpTo(_)
FileSetsUpTo(n) ==
    IF n = 0 THEN {{}}
    ELSE LET smaller == FileSetsUpTo(n - 1)
         IN  smaller \cup {t \cup {f} : t \in smaller, f \in LocFiles}

\* Working trees of up to MaxFiles files, no path twice.
LocTrees ==
    {t \in FileSetsUpTo(MaxFiles) :
        \A f, g \in t : (f.dir = g.dir /\ f.name = g.name) => f = g}

InitLoc ==
    /\ PipelineNotStarted
    /\ fs \in LocTrees
    /\ ret = NoCall
    /\ prev = NoCall
    /\ calls = 0

CallLoc ==
    /\ calls < MaxCalls
    /\ calls' = calls + 1
    /\ prev' = ret
    /\ ret' = Called(fs, Return(count_loc_by_language(fs)))
    /\ UNCHANGED <<fs, mainVars>>

\* The tree changes between two calls: a file is deleted.
RemoveFile ==
    /\ calls < MaxCalls
    /\ \E f \in fs : fs' = fs \ {f}
    /\ UNCHANGED <<ret, prev, calls, mainVars>>

NextLoc ==
    \/ CallLoc
    \/ RemoveFile

SpecLoc == InitLoc /\ [][NextLoc]_vars

(* get_tsconfig_strictness *)

JsonValues == {"true", "false", "null"}

TsStates ==
    {[exists |-> FALSE, parsed |-> [kind |-> "error"]]}
    \cup {[exists |-> TRUE, parsed |-> p] :
            p \in {[kind |-> "error"], [kind |-> "array"]}
                  \cup {[kind |-> "object", co |-> c] :
                          c \in {[kind |-> "missing"], [kind |-> "null"]}
                                \cup {[kind |-> "object", opts |-> o] :
                                        o \in UNION {[S -> JsonValues] :
                                                       S \in SUBSET StrictnessOptions}}}}

InitTs ==
    /\ PipelineNotStarted
    /\ fs \in TsStates
    /\ ret = NoCall
    /\ prev = NoCall
    /\ calls = 0

CallTs ==
    /\ calls < MaxCalls
    /\ calls' = calls + 1
    /\ prev' = ret
    /\ ret' = Called(fs, get_tsconfig_strictness(fs))
    /\ UNCHANGED <<fs, mainVars>>

NextTs == CallTs

SpecTs == InitTs /\ [][NextTs]_vars

(* get_dependency_graph_depth *)

StderrLines == {<<>>, <<" ">>, <<"E", " ">>}

Stderrs == UNION {[1..n -> StderrLines] : n \in 0..MaxStderr}

Graphs ==
    UNION {[S -> SUBSET {"b.ts", "c.ts"}] : S \in SUBSET {"a.ts", "b.ts"}}

ToolRuns ==
    {ToolRun("missing", 0, "none", <<>>, NoJson)}
    \cup {ToolRun("ok", 1, c, e, NoJson) : c \in {"circular", "crash"}, e \in Stderrs}
    \cup {ToolRun("ok", 0, "none", <<>>, o) :
            o \in {NoJson, [kind |-> "array"]} \cup {[kind |-> "graph", g |-> g] : g \in Graphs}}

InitGraph ==
    /\ PipelineNotStarted
    /\ fs = <<>>
    /\ ret = NoCall
    /\ prev = NoCall
    /\ calls = 0

\* One call: the tool is run (fs is what it did) and the adapter answers.
CallGraph ==
    /\ calls < MaxCalls
    /\ calls' = calls + 1
    /\ \E t \in ToolRuns :
          /\ fs' = t
          /\ ret' = Called(t, get_dependency_graph_depth(t))
    /\ prev' = ret
    /\ UNCHANGED mainVars

NextGraph == CallGraph

SpecGraph == InitGraph /\ [][NextGraph]_vars

-----------------------------------------------------------------------------
(* Properties of the analyzers.                                            *)

IsCircularExit(t) == t.start = "ok" /\ t.exit # 0 /\ t.cause = "circular"

IsCrashExit(t) == t.start = "ok" /\ t.exit # 0 /\ t.cause = "crash"

IsToolMissing(t) == t.start = "missing"

\* Standard error has a character that is not whitespace.
HasText(stderr) ==
    \E k \in DOMAIN stderr : \E j \in DOMAIN stderr[k] : stderr[k][j] \notin Whitespace

IsErrorResult(r) == r.kind = "return" /\ DOMAIN r.value = {"error"}

(* C6: a circular-dependency exit gives an error result whose reason       *)
(* differs from the reason given for a crashed tool and for a missing      *)
(* tool.  Stated for calls that returned a result.                         *)
C6_CircularExitHasItsOwnReason ==
    \A a, b \in {ret, prev} :
        ( /\ IsErrorResult(a)
          /\ IsErrorResult(b)
          /\ IsCircularExit(a.arg)
          /\ IsCrashExit(b.arg) \/ IsToolMissing(b.arg) )
        => a.value.error # b.value.error

(* C6, amended: the cause of a non-zero exit is not inspected.  A circular *)
(* exit and a crash with the same standard error have the same outcome:    *)
(* {error: "Madge execution failed"} when standard error has text, an      *)
(* IndexError leaving the adapter when it has none.  Only a tool that      *)
(* cannot be started is told apart, by "General Madge error".              *)
C6_NonZeroExitClassifiedAlike ==
    \A a, b \in {ret, prev} :
        /\ (a.kind # "none" /\ IsCircularExit(a.arg)) =>
              IF HasText(a.arg.stderr)
              THEN a.kind = "return" /\ a.value = [error |-> "Madge execution failed"]
              ELSE a.kind = "raise" /\ a.value = "IndexError"
        /\ ( /\ a.kind # "none" /\ b.kind # "none"
             /\ IsCircularExit(a.arg) /\ IsCrashExit(b.arg)
             /\ a.arg.stderr = b.arg.stderr )
           => (a.kind = b.kind /\ a.value = b.value)
        /\ ( /\ a.kind # "none" /\ b.kind # "none"
             /\ IsCircularExit(a.arg) /\ IsToolMissing(b.arg) )
           => ( /\ b.kind = "return" /\ b.value = [error |-> "General Madge error"]
                /\ a.kind = "return" => a.value # b.value )

\* A circular exit and then a crash, both answered with a result.
C6_Witness ==
    /\ IsErrorResult(prev) /\ IsCircularExit(prev.arg)
    /\ IsErrorResult(ret) /\ IsCrashExit(ret.arg)
    /\ prev.arg.stderr # ret.arg.stderr

TsAbsent(ts) == ~ts.exists

TsUnparsable(ts) == ts.exists /\ ts.parsed.kind = "error"

\* The file parses to an object that does not set option o.
TsUnset(ts, o) ==
    /\ ts.exists
    /\ ts.parsed.kind = "object"
    /\ \/ ts.parsed.co.kind = "missing"
       \/ ts.parsed.co.kind = "object" /\ o \notin DOMAIN ts.parsed.co.opts

NonBlankLines(f) ==
    Cardinality({k \in DOMAIN f.lines :
                    \E j \in DOMAIN f.lines[k] : f.lines[k][j] \notin Whitespace})

RECURSIVE SumNonBlank(_)
SumNonBlank(files) ==
    IF files = {} THEN 0
    ELSE LET f == CHOOSE x \in files : TRUE
         IN  NonBlankLines(f) + SumNonBlank(files \ {f})

(* C8: every result of count_loc_by_language has total = typescript +      *)
(* javascript + other, all four non-negative, and counts only what the     *)
(* tree of this call holds: nothing is carried over from an earlier call.  *)
C8_TotalIsSumCountedFromZero ==
    ret.kind = "return" =>
        LET v == ret.value
        IN  /\ v.total = v.typescript + v.javascript + v.other
            /\ \A b \in DOMAIN v : v[b] >= 0
            /\ v.total <= SumNonBlank(ret.arg)

\* A second call, on a tree that changed, unreadable file included, after a
\* first call that counted something.
C8_Witness ==
    /\ calls = 2
    /\ prev.kind = "return" /\ prev.value.total > 0
    /\ ret.kind = "return" /\ ret.value.total > 0
    /\ ret.arg # prev.arg
    /\ \E f \in ret.arg : ~f.openOk

\* Some directory on the way to the file has a pruned name.
UnderPrunedDir(f) == \E k \in DOMAIN f.dir : f.dir[k] \in EXCLUDE_DIRS

\* The file may be counted at all.
Eligible(f) ==
    /\ ~UnderPrunedDir(f)
    /\ SuffixLower(f.name) \notin EXCLUDE_FILE_EXTS
    /\ f.size <= MAX_FILE_BYTES

\* The buckets the extension of a file matches.
BucketsOf(f) ==
    {b \in Buckets :
        \/ b = "typescript" /\ (SuffixLower(f.name) \in TS_EXTS \/ EndsWithDTs(f.name))
        \/ b = "javascript" /\ SuffixLower(f.name) \in JS_EXTS
        \/ b = "other" /\ SuffixLower(f.name) \in OTHER_CODE_EXTS}

\* What file f adds to bucket b; a file that cannot be read adds nothing.
Contribution(f, b) ==
    IF Eligible(f) /\ b \in BucketsOf(f) /\ f.statOk /\ f.openOk
    THEN NonBlankLines(f) ELSE 0

RECURSIVE SumContribution(_, _)
SumContribution(files, b) ==
    IF files = {} THEN 0
    ELSE LET f == CHOOSE x \in files : TRUE
         IN  Contribution(f, b) + SumContribution(files \ {f}, b)

(* C9: a file is counted only if it is under no pruned directory, has no   *)
(* binary/media extension and is not above the 10 MiB ceiling; it then     *)
(* adds its non-blank lines to the one bucket its extension selects, or to *)
(* none; so each bucket is the sum of what the files of the tree add.      *)
C9_CountsByEligibilityAndBucket ==
    ret.kind = "return" =>
        /\ \A f \in ret.arg : Cardinality(BucketsOf(f)) <= 1
        /\ \A b \in Buckets : ret.value[b] = SumContribution(ret.arg, b)

\* A tree with a text file above the ceiling, a file of whitespace-only
\* lines and a counted file was counted.
C9_Witness ==
    /\ ret.kind = "return"
    /\ ret.value.total > 0
    /\ \E f \in ret.arg :
          f.size > MAX_FILE_BYTES /\ BucketsOf(f) # {} /\ NonBlankLines(f) > 0
    /\ \E f \in ret.arg :
          Eligible(f) /\ BucketsOf(f) # {} /\ f.lines # <<>> /\ NonBlankLines(f) = 0

=============================================================================
